---- MODULE Spec2Model ----
(***************************************************************************)
(* Model of app.py: a Streamlit script that looks up places near a hotel   *)
(* through a cached call to the Google Places Nearby Search API, keeps     *)
(* the places rated 4.0 or more, sorts them by distance, shows the first   *)
(* ten and derives a Grab fare estimate from their average distance.       *)
(*                                                                         *)
(* Units.  Ratings are in tenths (4.0 is 40).  Coordinates are in units    *)
(* of 1/R radian, so that one unit of latitude is one kilometre of arc;    *)
(* every modelled place lies on the meridian of the search origin.         *)
(* Floating-point quotients are exact rationals [num, den].                *)
(***************************************************************************)
EXTENDS Integers, Sequences, FiniteSets, TLC

VARIABLES
    env,            \* value of GOOGLE_API_KEY in the process environment
    GOOGLE_API_KEY, \* module global read at line 16
    pc,             \* position of the script run
    hotel,          \* sidebar selection
    category,       \* sidebar selection
    radius_km,      \* sidebar selection
    cache,          \* st.cache_data store of search_places, by argument tuple
    now,            \* wall clock, seconds
    resp,           \* what the search of this run observed from the provider
    raw,            \* script variable raw
    filtered,       \* script variable filtered
    top10,          \* script variable top10
    avg_dist,       \* script variable avg_dist
    grab_est,       \* script variable grab_est
    bound,          \* names of the script variables assigned in this run
    errors,         \* st.error messages shown in this run
    warnings,       \* st.warning messages shown in this run
    calls           \* history: the provider requests made so far

vars == <<env, GOOGLE_API_KEY, pc, hotel, category, radius_km, cache, now,
          resp, raw, filtered, top10, avg_dist, grab_est, bound, errors,
          warnings, calls>>

-----------------------------------------------------------------------------
(* Bounds of the model *)

MaxCalls == 2
MaxClock == 3600
MaxShort == 3
MaxResults == 12

Delays == {1800, 3600}

(* the sidebar choices the modelled user makes: hotel, category, radius *)
Selections ==
    { <<"waterfront", "spa", 3>>, <<"waterfront", "spa", 5>>,
      <<"movenpick", "cafe", 3>> }

-----------------------------------------------------------------------------
(* Program constants *)

TTL == 3600
R == 6371
MinRating == 40
TopN == 10
MinFare == 60
FlagFall == 40
PerKm == 15

HOTELS == [waterfront |-> <<1147, 13776>>, movenpick |-> <<1141, 13784>>]

HotelNames == {"waterfront", "movenpick"}

CATEGORIES == [spa |-> "spa|massage", cafe |-> "cafe"]

CategoryNames == {"spa", "cafe"}

RadiusChoices == {1, 3, 5}

-----------------------------------------------------------------------------
(* Arithmetic helpers *)

Abs(x) == IF x < 0 THEN -x ELSE x

RECURSIVE Gcd(_, _)
Gcd(a, b) == IF b = 0 THEN a ELSE Gcd(b, a % b)

Rat(n, d) ==
    LET g == Gcd(Abs(n), d)
    IN  [num |-> n \div g, den |-> d \div g]

RatAdd(x, y) == Rat(x.num * y.den + y.num * x.den, x.den * y.den)

RatMul(x, y) == Rat(x.num * y.num, x.den * y.den)

RatMax(x, y) == IF x.num * y.den >= y.num * x.den THEN x ELSE y

Zero == Rat(0, 1)

-----------------------------------------------------------------------------
(* haversine, restricted to two points of one meridian (dlon = 0), where   *)
(* a = sin(dlat/2)^2 and R * 2 * atan2(sqrt(a), sqrt(1-a)) = R * |dlat|.   *)
(* radians(x) is x / R in the model's unit.                                *)

haversine(lat1, lon1, lat2, lon2) ==
    LET dlat == lat2 - lat1
        dlon == lon2 - lon1
    IN  CASE dlon = 0 -> (R * Abs(dlat)) \div R

-----------------------------------------------------------------------------
(* Provider responses.  A JSON object is a record together with the set    *)
(* `has` of the keys that are present; Get is dict.get(key, default).      *)

Get(d, k, default) == IF k \in d.has THEN d[k] ELSE default

AllKeys == {"name", "rating", "user_ratings_total", "geometry", "vicinity",
            "opening_hours", "open_now", "place_id"}

Item(id, rating, lat, lng, has) ==
    [has |-> has, name |-> "place", rating |-> rating,
     user_ratings_total |-> 10 * id, lat |-> lat, lng |-> lng,
     vicinity |-> "street", open_now |-> (id % 2 = 0), place_id |-> id]

ExampleResults(lat, lng) ==
    << Item(1, 39, lat + 2, lng, AllKeys),
       Item(2, 40, lat + 1, lng, AllKeys \ {"opening_hours", "open_now"}),
       Item(3, 45, lat - 3, lng, AllKeys \ {"name", "open_now"}) >>

LowResults(lat, lng) ==
    << Item(1, 48, lat + 1, lng, AllKeys \ {"rating", "place_id"}),
       Item(2, 39, lat - 2, lng, AllKeys \ {"vicinity", "user_ratings_total"}) >>

LongResults(lat, lng, n, s) ==
    [i \in 1..n |->
        Item(i, IF s > 0 /\ i % (4 * s) = 0 THEN 35 ELSE 40 + 5 * (i % 2),
             lat + ((i * 5) % 7) - 3, lng, AllKeys)]

ShortResults(lat, lng) ==
    LET kinds == {39, 40, 45} \X {0, 1, 3, 10}
    IN  UNION { { [i \in 1..n |-> Item(i, f[i][1], lat + f[i][2], lng, AllKeys)] :
                    f \in [1..n -> kinds] } : n \in 0..MaxShort }

Json(status, has, msg, results) ==
    [kind |-> "json", status |-> status, has |-> has,
     error_message |-> msg, results |-> results]

Failure(kind) ==
    [kind |-> kind, status |-> "", has |-> {}, error_message |-> "",
     results |-> << >>]

NoResp == Failure("none")

CacheHit == Failure("hit")

ProviderOutcomes(lat, lng) ==
    { Json("OK", {"status", "results"}, "", ExampleResults(lat, lng)),
      Json("OK", {"status", "results"}, "", LowResults(lat, lng)),
      Json("ZERO_RESULTS", {"status", "results"}, "", << >>),
      Json("OVER_QUERY_LIMIT", {"status", "results"}, "", << >>),
      Json("REQUEST_DENIED", {"status", "results", "error_message"},
           "The provided API key is invalid.", << >>),
      Failure("timeout"), Failure("network"), Failure("other") }

-----------------------------------------------------------------------------
(* search_places: the body of the cached function.  It returns the list    *)
(* and the st.error messages it displayed.                                 *)

Normalize(p, lat, lng) ==
    LET p_lat == IF "geometry" \in p.has THEN p.lat ELSE 0
        p_lng == IF "geometry" \in p.has THEN p.lng ELSE 0
        is_open == IF "opening_hours" \in p.has
                   THEN (IF "open_now" \in p.has
                         THEN (IF p.open_now THEN "true" ELSE "false")
                         ELSE "none")
                   ELSE "none"
    IN  [name |-> Get(p, "name", "no name"),
         rating |-> Get(p, "rating", 0),
         reviews |-> Get(p, "user_ratings_total", 0),
         lat |-> p_lat,
         lng |-> p_lng,
         address |-> Get(p, "vicinity", ""),
         is_open |-> is_open,
         place_id |-> Get(p, "place_id", 0),
         dist_km |-> haversine(lat, lng, p_lat, p_lng)]

AcceptedStatus_OkOnly == {"OK"}

AcceptedStatus == {"OK", "ZERO_RESULTS"}

ErrorMsg_StatusOnly(data) == Get(data, "status", "unknown error")

ErrorMsg(data) ==
    Get(data, "error_message", Get(data, "status", "unknown error"))

search_places(lat, lng, keyword, radius, outcome) ==
    CASE outcome.kind = "timeout" ->
            [ret |-> << >>, errs |-> {[kind |-> "timeout", msg |-> ""]}]
      [] outcome.kind = "network" ->
            [ret |-> << >>, errs |-> {[kind |-> "network", msg |-> ""]}]
      [] outcome.kind = "other" ->
            [ret |-> << >>, errs |-> {[kind |-> "unexpected", msg |-> ""]}]
      [] outcome.kind = "json" ->
            IF Get(outcome, "status", "") \notin AcceptedStatus
            THEN [ret |-> << >>,
                  errs |-> {[kind |-> "api", msg |-> ErrorMsg(outcome)]}]
            ELSE [ret |-> [i \in 1..Len(Get(outcome, "results", << >>)) |->
                              Normalize(outcome.results[i], lat, lng)],
                  errs |-> {}]

-----------------------------------------------------------------------------
(* st.cache_data(ttl=3600): one entry per argument tuple, holding the      *)
(* returned value and the st elements the body displayed.                  *)

Keys ==
    { <<HOTELS[h][1], HOTELS[h][2], CATEGORIES[c], r * 1000>> :
        h \in HotelNames, c \in CategoryNames, r \in RadiusChoices }

NoEntry == [present |-> FALSE, value |-> << >>, messages |-> {}, stored |-> 0]

CacheValid_Never(entry, t) == FALSE

CacheValid(entry, t) == entry.present /\ t - entry.stored < TTL

CacheStore(c, key, result, t) ==
    [c EXCEPT ![key] = [present |-> TRUE, value |-> result.ret,
                        messages |-> result.errs, stored |-> t]]

-----------------------------------------------------------------------------
(* The recommendation steps of the script *)

Missing_Never(key) == FALSE

Missing(key) == key = ""

NoRaw_Never(rs) == FALSE

NoRaw(rs) == rs = << >>

FilterRating(rs) == SelectSeq(rs, LAMBDA p : p.rating >= MinRating)

InsertByDist_Unstable(s, x) ==
    LET n == Cardinality({i \in 1..Len(s) : s[i].dist_km < x.dist_km})
    IN  SubSeq(s, 1, n) \o <<x>> \o SubSeq(s, n + 1, Len(s))

InsertByDist(s, x) ==
    LET n == Cardinality({i \in 1..Len(s) : s[i].dist_km <= x.dist_km})
    IN  SubSeq(s, 1, n) \o <<x>> \o SubSeq(s, n + 1, Len(s))

RECURSIVE SortFrom(_, _, _)
SortFrom(s, i, acc) ==
    IF i > Len(s) THEN acc ELSE SortFrom(s, i + 1, InsertByDist(acc, s[i]))

SortByDist(s) == SortFrom(s, 1, << >>)

Truncate_OffByOne(s) ==
    SubSeq(s, 1, IF Len(s) < TopN + 1 THEN Len(s) ELSE TopN + 1)

Truncate(s) == SubSeq(s, 1, IF Len(s) < TopN THEN Len(s) ELSE TopN)

RECURSIVE SumDist(_)
SumDist(s) == IF s = << >> THEN 0 ELSE Head(s).dist_km + SumDist(Tail(s))

AvgDist_Passed(shown, passed) == Rat(SumDist(passed), Len(passed))

AvgDist(shown, passed) == Rat(SumDist(shown), Len(shown))

GrabEst(avg) ==
    RatMax(Rat(MinFare, 1), RatAdd(Rat(FlagFall, 1), RatMul(avg, Rat(PerKm, 1))))

-----------------------------------------------------------------------------
(* Script state *)

base_lat == HOTELS[hotel][1]

base_lng == HOTELS[hotel][2]

keyword == CATEGORIES[category]

radius_m == radius_km * 1000

ScriptVars == <<resp, raw, filtered, top10, avg_dist, grab_est, bound,
                errors, warnings>>

Sidebar == <<hotel, category, radius_km>>

Init ==
    /\ env \in {"", "AIza"}
    /\ GOOGLE_API_KEY = ""
    /\ pc = "config"
    /\ hotel = "waterfront"
    /\ category = "spa"
    /\ radius_km = 3
    /\ cache = [k \in Keys |-> NoEntry]
    /\ now = 0
    /\ resp = NoResp
    /\ raw = << >>
    /\ filtered = << >>
    /\ top10 = << >>
    /\ avg_dist = Zero
    /\ grab_est = Zero
    /\ bound = {}
    /\ errors = {}
    /\ warnings = {}
    /\ calls = << >>

(* line 16 *)
LoadConfig ==
    /\ pc = "config"
    /\ GOOGLE_API_KEY' = env
    /\ pc' = "credential"
    /\ UNCHANGED <<env, Sidebar, cache, now, ScriptVars, calls>>

(* lines 126-129 *)
CredentialCheck ==
    /\ pc = "credential"
    /\ IF Missing(GOOGLE_API_KEY)
       THEN /\ errors' = errors \cup {[kind |-> "config", msg |-> ""]}
            /\ pc' = "stopped"
       ELSE /\ errors' = errors
            /\ pc' = "sidebar"
    /\ UNCHANGED <<env, GOOGLE_API_KEY, Sidebar, cache, now, resp, raw,
                   filtered, top10, avg_dist, grab_est, bound, warnings, calls>>

(* lines 134-144 *)
SidebarSelect ==
    /\ pc = "sidebar"
    /\ \E sel \in Selections :
          /\ sel[1] \in HotelNames /\ hotel' = sel[1]
          /\ sel[2] \in CategoryNames /\ category' = sel[2]
          /\ sel[3] \in RadiusChoices /\ radius_km' = sel[3]
    /\ pc' = "search"
    /\ UNCHANGED <<env, GOOGLE_API_KEY, cache, now, ScriptVars, calls>>

(* lines 61-118 and 173-174: the cached call *)
Search ==
    /\ pc = "search"
    /\ LET key == <<base_lat, base_lng, keyword, radius_m>>
       IN  IF CacheValid(cache[key], now)
           THEN /\ raw' = cache[key].value
                /\ \E replay \in BOOLEAN :
                      errors' = IF replay THEN errors \cup cache[key].messages
                                ELSE errors
                /\ resp' = CacheHit
                /\ UNCHANGED <<cache, calls>>
           ELSE /\ Len(calls) < MaxCalls
                /\ \E o \in ProviderOutcomes(base_lat, base_lng) :
                      LET result == search_places(base_lat, base_lng, keyword,
                                                  radius_m, o)
                      IN  /\ raw' = result.ret
                          /\ errors' = errors \cup result.errs
                          /\ resp' = o
                          /\ cache' = CacheStore(cache, key, result, now)
                          /\ calls' = Append(calls,
                                 [key |-> key, time |-> now, outcome |-> o,
                                  returned |-> result.ret])
    /\ bound' = bound \cup {"raw"}
    /\ pc' = "check"
    /\ UNCHANGED <<env, GOOGLE_API_KEY, Sidebar, now, filtered, top10,
                   avg_dist, grab_est, warnings>>

(* lines 176-178 *)
CheckRaw ==
    /\ pc = "check"
    /\ IF NoRaw(raw)
       THEN /\ warnings' = warnings \cup {"no results"}
            /\ pc' = "stopped"
       ELSE /\ warnings' = warnings
            /\ pc' = "filter"
    /\ UNCHANGED <<env, GOOGLE_API_KEY, Sidebar, cache, now, resp, raw,
                   filtered, top10, avg_dist, grab_est, bound, errors, calls>>

(* lines 181-189 *)
Recommend ==
    /\ pc = "filter"
    /\ filtered' = SortByDist(FilterRating(raw))
    /\ top10' = Truncate(filtered')
    /\ bound' = bound \cup {"filtered", "top10"}
    /\ IF top10' = << >>
       THEN /\ warnings' = warnings \cup {"no place rated 4.0 or more"}
            /\ pc' = "stopped"
       ELSE /\ warnings' = warnings
            /\ pc' = "grab"
    /\ UNCHANGED <<env, GOOGLE_API_KEY, Sidebar, cache, now, resp, raw,
                   avg_dist, grab_est, errors, calls>>

(* lines 241-247 *)
Grab ==
    /\ pc = "grab"
    /\ IF top10 # << >>
       THEN /\ avg_dist' = AvgDist(top10, filtered)
            /\ grab_est' = GrabEst(avg_dist')
            /\ bound' = bound \cup {"avg_dist", "grab_est"}
       ELSE UNCHANGED <<avg_dist, grab_est, bound>>
    /\ pc' = "done"
    /\ UNCHANGED <<env, GOOGLE_API_KEY, Sidebar, cache, now, resp, raw,
                   filtered, top10, errors, warnings, calls>>

(* a widget interaction reruns the script from the top with fresh variables *)
Rerun ==
    /\ pc \in {"done", "stopped"}
    /\ pc' = "config"
    /\ resp' = NoResp
    /\ raw' = << >>
    /\ filtered' = << >>
    /\ top10' = << >>
    /\ avg_dist' = Zero
    /\ grab_est' = Zero
    /\ bound' = {}
    /\ errors' = {}
    /\ warnings' = {}
    /\ UNCHANGED <<env, GOOGLE_API_KEY, Sidebar, cache, now, calls>>

(* time passes between two runs *)
Tick ==
    /\ pc \in {"done", "stopped"}
    /\ \E d \in Delays :
          /\ now + d <= MaxClock
          /\ now' = now + d
    /\ UNCHANGED <<env, GOOGLE_API_KEY, pc, Sidebar, cache, ScriptVars, calls>>

Next ==
    \/ LoadConfig
    \/ CredentialCheck
    \/ SidebarSelect
    \/ Search
    \/ CheckRaw
    \/ Recommend
    \/ Grab
    \/ Rerun
    \/ Tick

Spec == Init /\ [][Next]_vars

-----------------------------------------------------------------------------
(* The recommendation steps on their own: raw is any normalized list.      *)

PipelineRaw ==
    LET lat == HOTELS["waterfront"][1]
        lng == HOTELS["waterfront"][2]
        lists == ShortResults(lat, lng)
                   \cup {ExampleResults(lat, lng), LowResults(lat, lng)}
                   \cup {LongResults(lat, lng, n, s) :
                            n \in 0..MaxResults, s \in 0..2}
    IN  { [i \in 1..Len(items) |-> Normalize(items[i], lat, lng)] :
            items \in lists }

PipelineInit ==
    /\ env = "AIza"
    /\ GOOGLE_API_KEY = "AIza"
    /\ pc = "check"
    /\ hotel = "waterfront"
    /\ category = "spa"
    /\ radius_km = 3
    /\ cache = [k \in Keys |-> NoEntry]
    /\ now = 0
    /\ resp = NoResp
    /\ raw \in PipelineRaw
    /\ filtered = << >>
    /\ top10 = << >>
    /\ avg_dist = Zero
    /\ grab_est = Zero
    /\ bound = {"raw"}
    /\ errors = {}
    /\ warnings = {}
    /\ calls = << >>

PipelineNext ==
    \/ CheckRaw
    \/ Recommend
    \/ Grab

PipelineSpec == PipelineInit /\ [][PipelineNext]_vars

-----------------------------------------------------------------------------
(* Properties *)

CurrentKey == <<base_lat, base_lng, keyword, radius_m>>

Searched == "raw" \in bound /\ resp.kind \notin {"none", "hit"}

FailedLookup ==
    \/ resp.kind \in {"timeout", "network", "other"}
    \/ resp.kind = "json" /\ resp.status \notin {"OK", "ZERO_RESULTS"}

ProviderError ==
    resp.kind = "json" /\ resp.status \notin {"OK", "ZERO_RESULTS"}

ZeroResults == resp.kind = "json" /\ resp.status = "ZERO_RESULTS"

(* C1: a search that ended in a failure leaves no cache entry for its key, *)
(* so the next search with that key within the hour calls the provider.    *)
C1_FailuresNotCached ==
    (Searched /\ FailedLookup) => ~CacheValid(cache[CurrentKey], now)

(* C2: two provider calls for one key are at least the cache window        *)
(* apart, and a search within the window of an earlier call for its key    *)
(* is a hit that returns the list that call produced.                      *)
C2_AtMostOneCallPerWindow ==
    /\ \A i, j \in 1..Len(calls) :
          (i < j /\ calls[i].key = calls[j].key)
             => calls[j].time - calls[i].time >= TTL
    /\ (pc = "check" /\ resp.kind = "hit")
          => \E i \in 1..Len(calls) :
                /\ calls[i].key = CurrentKey
                /\ now - calls[i].time < TTL
                /\ raw = calls[i].returned

C2_Witness ==
    /\ pc = "check"
    /\ resp.kind = "hit"
    /\ raw # << >>
    /\ \E i \in 1..Len(calls) :
          calls[i].key = CurrentKey /\ calls[i].time < now

(* C3 as stated: a provider status other than OK and ZERO_RESULTS gives    *)
(* an error that carries the provider's status, and a result the caller    *)
(* can tell from a successful one.                                         *)
C3_ProviderErrorDistinct ==
    (Searched /\ ProviderError)
       => /\ \E e \in errors : e.kind = "api" /\ e.msg = resp.status
          /\ raw # search_places(base_lat, base_lng, keyword, radius_m,
                      Json("ZERO_RESULTS", {"status", "results"}, "", << >>)).ret

(* C3 amended: a provider status other than OK and ZERO_RESULTS shows one  *)
(* API error whose text is the provider's error_message, or the status     *)
(* when the response has no error_message, and returns the empty list.     *)
C3_ProviderErrorShown ==
    (Searched /\ ProviderError)
       => /\ errors = {[kind |-> "api",
                        msg |-> IF "error_message" \in resp.has
                                THEN resp.error_message ELSE resp.status]}
          /\ raw = << >>

C3_Witness ==
    /\ Searched
    /\ ProviderError
    /\ "error_message" \in resp.has
    /\ resp.error_message # resp.status
    /\ pc = "stopped"

(* C4: a ZERO_RESULTS response gives the empty list and shows no error.    *)
C4_ZeroResultsIsSuccess ==
    (Searched /\ ZeroResults)
       => /\ raw = << >>
          /\ errors = {}
          /\ pc \in {"check", "stopped"}
          /\ warnings \subseteq {"no results"}

C4_Witness == Searched /\ ZeroResults /\ pc = "stopped" /\ errors = {}

(* C5: the shown list has at most TopN records, each rated MinRating or    *)
(* more.                                                                   *)
C5_BoundedAndRated ==
    "top10" \in bound
       => /\ Len(top10) <= 10
          /\ \A i \in 1..Len(top10) : top10[i].rating >= 40

C5_Witness ==
    /\ "top10" \in bound
    /\ Len(top10) = 10
    /\ Len(filtered) > 10
    /\ \E i \in 1..Len(raw) : raw[i].rating < 40

(* C6: the shown list is the first TopN records of the qualifying records  *)
(* of raw in non-decreasing distance order, equal distances in input       *)
(* order; ratings 3.9, 4.0, 4.5 at 2, 1, 3 km give the second and third.   *)
C6_SortedStableTopN ==
    "top10" \in bound
       => LET idx == {i \in 1..Len(raw) : raw[i].rating >= 40}
              before(j, i) ==
                  \/ raw[j].dist_km < raw[i].dist_km
                  \/ raw[j].dist_km = raw[i].dist_km /\ j < i
              rank(i) == 1 + Cardinality({j \in idx : before(j, i)})
              n == IF Cardinality(idx) < 10 THEN Cardinality(idx) ELSE 10
          IN  /\ top10 = [k \in 1..n |-> raw[CHOOSE i \in idx : rank(i) = k]]
              /\ \A k \in 1..(Len(top10) - 1) :
                    top10[k].dist_km <= top10[k + 1].dist_km
              /\ (Len(raw) = 3 /\ raw[1].rating = 39 /\ raw[2].rating = 40
                    /\ raw[3].rating = 45 /\ raw[1].dist_km = 2
                    /\ raw[2].dist_km = 1 /\ raw[3].dist_km = 3)
                    => top10 = <<raw[2], raw[3]>>

C6_Witness ==
    /\ "top10" \in bound
    /\ Len(filtered) > 10
    /\ \E k \in 1..(Len(top10) - 1) :
          /\ top10[k].dist_km = top10[k + 1].dist_km
          /\ top10[k].place_id < top10[k + 1].place_id
    /\ \E k \in 1..(Len(top10) - 1) : top10[k].place_id > top10[k + 1].place_id

C6_ExampleWitness ==
    /\ "top10" \in bound
    /\ Len(raw) = 3
    /\ raw[1].rating = 39 /\ raw[1].dist_km = 2
    /\ Len(top10) = 2
    /\ top10[1].dist_km = 1 /\ top10[2].dist_km = 3

(* C7 as stated: an empty record list gives an empty shown list, average   *)
(* distance 0 and transport estimate 60.                                   *)
C7_EmptyGivesBaseFare ==
    ("raw" \in bound /\ raw = << >> /\ pc \in {"stopped", "done"})
       => /\ top10 = << >>
          /\ {"avg_dist", "grab_est"} \subseteq bound
          /\ avg_dist = Rat(0, 1)
          /\ grab_est = Rat(60, 1)

(* C7 amended: with an empty record list the script warns that there are   *)
(* no results and stops; nothing is shown and neither an average distance  *)
(* nor a transport estimate is computed.                                   *)
C7_EmptyStops ==
    ("raw" \in bound /\ raw = << >> /\ pc # "check")
       => /\ pc = "stopped"
          /\ warnings = {"no results"}
          /\ bound = {"raw"}
          /\ top10 = << >>

C7_Witness ==
    /\ "raw" \in bound
    /\ raw = << >>
    /\ pc = "stopped"
    /\ resp.kind = "json"
    /\ resp.status = "ZERO_RESULTS"

(* C8: the transport estimate is max(60, 40 + 15 * mean distance of the    *)
(* shown records): never below 60, 60 at mean 0 km and 190 at mean 10 km.  *)
C8_TransportEstimate ==
    "grab_est" \in bound
       => LET n == Len(top10)
              D == {top10[i].dist_km : i \in 1..n}
              m == CHOOSE d \in D : \A e \in D : e <= d
              S == Cardinality({q \in (1..n) \X (1..m) :
                                  q[2] <= top10[q[1]].dist_km})
              lin == 40 * n + 15 * S
          IN  /\ n > 0
              /\ grab_est.den > 0
              /\ grab_est.num * n
                   = grab_est.den * (IF lin > 60 * n THEN lin ELSE 60 * n)
              /\ grab_est.num >= 60 * grab_est.den
              /\ avg_dist.num * n = avg_dist.den * S
              /\ S = 0 => grab_est = [num |-> 60, den |-> 1]
              /\ S = 10 * n => grab_est = [num |-> 190, den |-> 1]

C8_Witness ==
    /\ pc = "done"
    /\ "grab_est" \in bound
    /\ Len(top10) = 2
    /\ avg_dist = [num |-> 10, den |-> 1]
    /\ grab_est = [num |-> 190, den |-> 1]

(* C9: with an empty GOOGLE_API_KEY the run stops at the credential check: *)
(* no search is made, no provider request is sent, nothing is cached.      *)
C9_NoSearchWithoutKey ==
    env = ""
       => /\ calls = << >>
          /\ pc \in {"config", "credential", "stopped"}
          /\ "raw" \notin bound
          /\ \A k \in Keys : ~cache[k].present
          /\ pc = "stopped" => [kind |-> "config", msg |-> ""] \in errors

C9_Witness ==
    /\ env = ""
    /\ pc = "stopped"
    /\ [kind |-> "config", msg |-> ""] \in errors

====
